---- MODULE Spec2Model ----
(***************************************************************************)
(* Model of botCauciones (src/main.py): the CaucionBot monitor engine, its *)
(* in-memory subscription registry, and the PostgreSQL store behind it.    *)
(*                                                                         *)
(* Rates and thresholds are fixed-point integers in thousandths of a       *)
(* percentage point (35.40 is 35400), so the float tolerance 0.001 of      *)
(* calculate_changes is 1 unit.  Python dicts keep insertion order; the    *)
(* registry and the subscriptions table are sequences of rows.            *)
(*                                                                         *)
(* Every handler is a coroutine on one asyncio event loop: the code        *)
(* between two suspending awaits runs atomically.  asyncio.Lock.acquire    *)
(* does not suspend when the lock is free, and the lock is only held       *)
(* around synchronous psycopg2 calls, so a store write never suspends.     *)
(* Only Telegram calls (send_message, reply_text, ...) suspend.            *)
(***************************************************************************)
EXTENDS Integers, Sequences, FiniteSets, TLC

\* ---------------------------------------------------------------- bounds
\* Number of times the timers may call get_caucion_rates in a run; every
\* call reads a later timestamp, and the counters of self.stats grow only
\* in ticks that made a call.
MaxClock == 2

\* Number of rows the suggestions table may hold in a run.
MaxSuggestions == 2

\* ------------------------------------------------------------- constants
MARKET_OPEN_HOUR == 10
MARKET_OPEN_MINUTE == 30
MARKET_CLOSE_HOUR == 17
MARKET_CLOSE_MINUTE == 0
\* abs(absolute_change) > 0.001, in thousandths of a point
Epsilon == 1
\* ZoneInfo("America/Buenos_Aires") is this many hours behind UTC
ARGENTINA_UTC_BEHIND == 3

Chats == {1, 2}
Tenors == {"1d", "2d", "3d", "7d"}

None == <<>>

\* float("nan"): a reserved code outside the range of every rate and
\* threshold; every ordered comparison with it is false (FloatLt, FloatGt,
\* FloatGe), as for Python floats.
NaN == 999999999

\* SubscriptionType values
NONE == "none"
ANY_CHANGE == "any_change"
PERCENTAGE == "percentage"

\* ------------------------------------------------------------ environment
\* Wall-clock readings of datetime.now(ARGENTINA_TZ) when a timer fires:
\* weekday (0 = Monday), hour, minute, second, microsecond.  A weekday at the
\* opening second, a weekday one second after the close, a Saturday at noon.
ClockSamples ==
  { [weekday |-> 2, hour |-> 10, minute |-> 30, second |-> 0, microsecond |-> 0],
    [weekday |-> 4, hour |-> 17, minute |-> 0, second |-> 1, microsecond |-> 0],
    [weekday |-> 5, hour |-> 12, minute |-> 0, second |-> 0, microsecond |-> 0] }

\* Prices the market-data provider may quote for PESOS1 (the other three
\* tenors stay at their base quotes).
Quotes1d == {35000, 35001, 37000}

\* float(tasa24h.get('price', 0)) of an answer that carries no price.
DegenerateQuote == 0

Rates(q) == ("1d" :> q) @@ ("2d" :> 36000) @@ ("3d" :> 36500) @@ ("7d" :> 37000)

\* A rates dict as get_caucion_rates builds it.
Snapshot(q, ts) == Rates(q) @@ ("timestamp" :> ts)

\* Outcomes of context.bot.send_message: returned, raised an exception whose
\* text lacks "bot was blocked", raised one whose text contains it.
SendOutcomes == {"Delivered", "Transient", "Blocked"}

\* Callback data of the inline buttons that configure a subscription, as
\* thresholds in thousandths (config_0.5, config_2.0), plus the two named ones.
ButtonData == {"config_any_change", "config_custom", "config_0.5", "config_2.0"}

\* Instants, as UTC readings, at which is_market_open is called directly:
\* each day of the week at times around the opening (13:30 UTC) and the
\* close (20:00 UTC), around the change of date in Buenos Aires (03:00 UTC)
\* and at the UTC readings 10:30 and 17:00.
UtcTimes ==
  { <<0, 0, 0, 0>>, <<2, 59, 59, 999999>>, <<3, 0, 0, 0>>, <<10, 30, 0, 0>>,
    <<13, 29, 59, 999999>>, <<13, 30, 0, 0>>, <<13, 30, 0, 1>>, <<13, 30, 1, 0>>,
    <<15, 0, 0, 0>>, <<17, 0, 0, 0>>, <<19, 59, 59, 999999>>, <<20, 0, 0, 0>>,
    <<20, 0, 0, 1>>, <<20, 0, 1, 0>>, <<20, 30, 0, 0>>, <<23, 59, 59, 999999>> }

UtcInputs ==
  { [weekday |-> d, hour |-> t[1], minute |-> t[2], second |-> t[3],
     microsecond |-> t[4]] : d \in 0..6, t \in UtcTimes }

\* Pairs of snapshots handed to calculate_changes to build a change set: the
\* 1d and 7d quotes move, the earlier 7d quote may be the missing-price 0.
OldRateInputs == { [Snapshot(35000, 0) EXCEPT !["7d"] = q7] : q7 \in {37000, 0} }

NewRateInputs ==
  { [Snapshot(q1, 1) EXCEPT !["7d"] = q7] :
      q1 \in {33000, 35000, 35001, 35002, 35200, 35400, 36500},
      q7 \in {37000, 38000, 39500} }

\* Arguments of direct calls of calculate_changes: the snapshots above, a
\* snapshot whose earlier 1d and 7d quotes are both 0, dicts that lack the
\* "7d" key, and None.
Without7d(rates) == [k \in (DOMAIN rates) \ {"7d"} |-> rates[k]]

CalcOldInputs ==
  OldRateInputs
  \cup { [Snapshot(0, 0) EXCEPT !["7d"] = 0], Without7d(Snapshot(35000, 0)), None }

CalcNewInputs ==
  NewRateInputs \cup { Without7d(Snapshot(35400, 1)), None }

\* Subscriptions handed to should_notify_user.
SubscriptionInputs ==
  { [chat_id |-> 1, subscription_type |-> "none", threshold_percentage |-> 0],
    [chat_id |-> 1, subscription_type |-> "any_change", threshold_percentage |-> 0] }
  \cup { [chat_id |-> 1, subscription_type |-> "percentage", threshold_percentage |-> p] :
           p \in {0, 2, 1000, 1500, 2000, NaN} }

\* Text messages a user may send while a custom threshold is awaited.
CustomTexts == {"0,3", "-1", "101", "abc", "nan"}

\* Text messages a user may send after /sugerencia: one that is too short,
\* one that is too short once stripped, one of words and one that reads as
\* a number.
SuggestionTexts == {"hola", "  hey ", "mas tenores", "12,50"}

\* Coroutines that may be inside a store method at the same time.
StoreTasks == {1, 2}

IdleTask == [op |-> "idle"]

\* The jobs post_init registers: check_rates_and_notify every 60 s,
\* log_status_job every 900 s, fetch_closing_rates_job on weekdays at 17:00.
AllJobs == {"check_rates_and_notify", "log_status_job", "fetch_closing_rates_job"}

\* ------------------------------------------------------------------ state
VARIABLES
  subscriptions,   \* self.subscriptions: rows in dict insertion order
  last_rates,      \* self.last_rates: a rates dict or None
  stats,           \* self.stats counters
  ppi,             \* self.ppi: "none" | "unauth" (built, login failed) | "auth"
  user_data,       \* context.user_data per chat: waiting_custom_threshold,
                   \* waiting_suggestion
  subs_table,      \* table subscriptions, rows in created_at order
  rate_history,    \* table rate_history, rows in id order
  clock,           \* logical time: calls of get_caucion_rates so far
  tick_state,      \* where the last tick is / how it ended (spec 4.5 states)
  tick_new,        \* local new_rates of the tick in its fan-out
  tick_changes,    \* local changes of the tick in its fan-out
  tick_items,      \* local list(self.subscriptions.items())
  tick_idx,        \* position in tick_items of the send being awaited
  sent_to,         \* chats the tick in its fan-out has started a send to
  unreachable,     \* chats whose send failed as "bot was blocked" in a tick
                   \* of this process and that have not subscribed since
  call_args,       \* the last direct call of a pure function: its name and
  call_result,     \* arguments, and what it returned
  suggestions,     \* table suggestions, rows in id order
  write_lock,      \* persistence.write_lock: 0 when free, else the coroutine
                   \* that holds it
  store_task,      \* per coroutine: the store method it is calling and how
                   \* far it got
  serving,         \* run_polling is serving updates
  jobs,            \* the timers registered on the job queue by post_init
  loop,            \* what occupies the event loop: "idle" between callbacks,
                   \* or a callback inside a blocking call
  status_line      \* the last [STATUS] line written to the log

vars == <<subscriptions, last_rates, stats, ppi, user_data, subs_table,
          rate_history, clock, tick_state, tick_new, tick_changes,
          tick_items, tick_idx, sent_to, unreachable, call_args, call_result,
          suggestions, write_lock, store_task, serving, jobs, loop,
          status_line>>

calls == <<call_args, call_result>>

\* What the rate jobs and the subscription handlers never write.
rest == <<suggestions, write_lock, store_task, serving, jobs, status_line>>

program == <<subscriptions, last_rates, stats, ppi, user_data, subs_table,
             rate_history, clock, tick_state, tick_new, tick_changes,
             tick_items, tick_idx, sent_to, unreachable, rest, loop>>

tick_locals == <<tick_new, tick_changes, tick_items, tick_idx>>

\* ---------------------------------------------------------------- helpers
\* dict operations on a sequence of rows keyed by chat_id
Keys(rows) == {rows[i].chat_id : i \in DOMAIN rows}

IndexOf(rows, chat_id) == CHOOSE i \in DOMAIN rows : rows[i].chat_id = chat_id

\* d[key] = value: replaces in place, or appends a new key
DictSet(rows, row) ==
  IF row.chat_id \in Keys(rows)
  THEN [rows EXCEPT ![IndexOf(rows, row.chat_id)] = row]
  ELSE Append(rows, row)

\* del d[key] for a key that is present
DictDel(rows, chat_id) == SelectSeq(rows, LAMBDA r : r.chat_id # chat_id)

\* the mapping a dict denotes, whatever its order
AsMap(rows) == [c \in Keys(rows) |-> rows[IndexOf(rows, c)]]

Reverse(s) == [i \in 1..Len(s) |-> s[Len(s) + 1 - i]]

Abs(x) == IF x < 0 THEN -x ELSE x

\* <, > and >= on floats
FloatLt(a, b) == a # NaN /\ b # NaN /\ a < b

FloatGt(a, b) == a # NaN /\ b # NaN /\ a > b

FloatGe(a, b) == a # NaN /\ b # NaN /\ a >= b

UserSubscription(chat_id, type, threshold) ==
  [chat_id |-> chat_id, subscription_type |-> type, threshold_percentage |-> threshold]

ZeroStats ==
  [checks |-> 0, changes_detected |-> 0, notifications_sent |-> 0,
   notification_errors |-> 0, api_errors |-> 0]

\* ------------------------------------------------- pure functions (main.py)
SecondOfDay(h, m, sec) == (h * 60 + m) * 60 + sec

\* Position of a datetime within its day, as <<seconds, microseconds>>; two
\* datetimes of the same date compare as these do under NotAfter.
TimeOfDay(h, m, sec, us) == <<SecondOfDay(h, m, sec), us>>

\* a <= b on datetimes of the same date
NotAfter(a, b) == a[1] < b[1] \/ (a[1] = b[1] /\ a[2] <= b[2])

\* datetime.now(ARGENTINA_TZ) for an instant given as a UTC reading: the zone
\* is UTC-3 all year, so the wall clock is three hours behind and the date is
\* the previous one before 03:00 UTC.
datetime_now(utc) ==
  IF utc.hour >= ARGENTINA_UTC_BEHIND
  THEN [utc EXCEPT !.hour = @ - ARGENTINA_UTC_BEHIND]
  ELSE [utc EXCEPT !.hour = @ + 24 - ARGENTINA_UTC_BEHIND,
                   !.weekday = (@ + 6) % 7]

\* Mutant of is_market_open: the close time itself is outside the hours.
is_market_open_CloseExcluded(now) ==
  IF now.weekday >= 5
  THEN FALSE
  ELSE LET t == TimeOfDay(now.hour, now.minute, now.second, now.microsecond)
           market_open == TimeOfDay(MARKET_OPEN_HOUR, MARKET_OPEN_MINUTE, 0, 0)
           market_close == TimeOfDay(MARKET_CLOSE_HOUR, MARKET_CLOSE_MINUTE, 0, 0)
       IN NotAfter(market_open, t) /\ NotAfter(t, market_close) /\ t # market_close

is_market_open(now) ==
  IF now.weekday >= 5
  THEN FALSE
  ELSE LET t == TimeOfDay(now.hour, now.minute, now.second, now.microsecond)
           market_open == TimeOfDay(MARKET_OPEN_HOUR, MARKET_OPEN_MINUTE, 0, 0)
           market_close == TimeOfDay(MARKET_CLOSE_HOUR, MARKET_CLOSE_MINUTE, 0, 0)
       IN NotAfter(market_open, t) /\ NotAfter(t, market_close)

\* self.ppi after connect_ppi: PPI(...) raised (self.ppi keeps its value),
\* the client was built but login_api raised, or both succeeded.
connect_ppi(cur, outcome) ==
  CASE outcome = "ctor_raises" -> cur
    [] outcome = "login_raises" -> "unauth"
    [] outcome = "ok" -> "auth"

ConnectOutcomes == {"ctor_raises", "login_raises", "ok"}

\* get_caucion_rates: a rates dict, or None when any call raises.  A missing
\* or unauthenticated client always raises; an authenticated one answers
\* (answers, with quote \in Quotes1d) or raises.
get_caucion_rates(client, answers, quote, ts) ==
  IF client = "auth" /\ answers THEN Snapshot(quote, ts) ELSE None

Get(d, key, default) == IF key \in DOMAIN d THEN d[key] ELSE default

\* (n * 100000) \div d for n >= 0 and d > 0, by long division so that no
\* intermediate product leaves the range of the integers of the checker.
ScaledQuotient(n, d) ==
  LET r0 == n % d
      r1 == (r0 * 1000) % d
  IN (n \div d) * 100000 + ((r0 * 1000) \div d) * 100 + (r1 * 100) \div d

\* (absolute_change / old_value) * 100, in thousandths of a percent,
\* truncated toward zero.
Percentage(absolute, old) ==
  IF absolute >= 0 THEN ScaledQuotient(absolute, old)
                   ELSE -ScaledQuotient(-absolute, old)

\* Mutant of calculate_changes: a difference equal to the tolerance counts
\* as a change.
calculate_changes_Inclusive(old_rates, new_rates) ==
  IF old_rates = None \/ new_rates = None
  THEN None
  ELSE [period \in Tenors |->
          LET old_value == Get(old_rates, period, 0)
              new_value == Get(new_rates, period, 0)
          IN IF old_value = 0
             THEN [absolute |-> 0, percentage |-> 0, changed |-> FALSE]
             ELSE LET absolute_change == new_value - old_value
                  IN [old |-> old_value,
                      new |-> new_value,
                      absolute |-> absolute_change,
                      percentage |-> Percentage(absolute_change, old_value),
                      changed |-> Abs(absolute_change) >= Epsilon]]

\* Mutant of calculate_changes: no special case for an earlier value of 0;
\* the relative change of such a tenor is reported as 0.
calculate_changes_NoZeroCase(old_rates, new_rates) ==
  IF old_rates = None \/ new_rates = None
  THEN None
  ELSE [period \in Tenors |->
          LET old_value == Get(old_rates, period, 0)
              new_value == Get(new_rates, period, 0)
              absolute_change == new_value - old_value
          IN [old |-> old_value,
              new |-> new_value,
              absolute |-> absolute_change,
              percentage |-> IF old_value = 0 THEN 0
                             ELSE Percentage(absolute_change, old_value),
              changed |-> Abs(absolute_change) > Epsilon]]

calculate_changes(old_rates, new_rates) ==
  IF old_rates = None \/ new_rates = None
  THEN None
  ELSE [period \in Tenors |->
          LET old_value == Get(old_rates, period, 0)
              new_value == Get(new_rates, period, 0)
          IN IF old_value = 0
             THEN [absolute |-> 0, percentage |-> 0, changed |-> FALSE]
             ELSE LET absolute_change == new_value - old_value
                  IN [old |-> old_value,
                      new |-> new_value,
                      absolute |-> absolute_change,
                      percentage |-> Percentage(absolute_change, old_value),
                      changed |-> Abs(absolute_change) > Epsilon]]

\* ------------------------------------------- pure functions (twitter_bot.py)
\* TWEET_THRESHOLD = 5.0 percentage points, in thousandths.
TWEET_THRESHOLD == 5000

\* Mutant of should_tweet: the size of the move decides, whatever its sign.
should_tweet_AnyDirection(changes) ==
  IF changes = None
  THEN FALSE
  ELSE \E period \in DOMAIN changes :
          /\ changes[period].changed
          /\ Abs(changes[period].absolute) >= TWEET_THRESHOLD

\* TwitterBot.should_tweet: False for None or {}, else whether the loop
\* meets a changed period whose absolute is at least the threshold.
should_tweet(changes) ==
  IF changes = None
  THEN FALSE
  ELSE \E period \in DOMAIN changes :
          /\ changes[period].changed
          /\ changes[period].absolute >= TWEET_THRESHOLD

\* twitter_bot.calculate_changes.  It has no test of its arguments: an empty
\* dict is read through .get like any other and gives four entries.  The
\* model writes None and {} alike as the empty function; called with None
\* the function raises AttributeError at the first .get.
twitter_calculate_changes(old_rates, new_rates) ==
  [period \in Tenors |->
     LET old_value == Get(old_rates, period, 0)
         new_value == Get(new_rates, period, 0)
     IN IF old_value = 0
        THEN [absolute |-> 0, percentage |-> 0, changed |-> FALSE]
        ELSE LET absolute_change == new_value - old_value
             IN [old |-> old_value,
                 new |-> new_value,
                 absolute |-> absolute_change,
                 percentage |-> Percentage(absolute_change, old_value),
                 changed |-> Abs(absolute_change) > Epsilon]]

\* The change sets of test_twitter in twitter_bot.py.
TestEntry(old, new, percentage) ==
  [old |-> old, new |-> new, absolute |-> new - old, percentage |-> percentage,
   changed |-> new # old]

changes_big ==
  ("1d" :> TestEntry(35000, 40500, 15710)) @@ ("2d" :> TestEntry(36000, 36200, 560))
  @@ ("3d" :> TestEntry(36500, 36800, 820)) @@ ("7d" :> TestEntry(37000, 37500, 1350))

changes_small ==
  ("1d" :> TestEntry(35000, 37000, 5710)) @@ ("2d" :> TestEntry(36000, 36200, 560))
  @@ ("3d" :> TestEntry(36500, 36800, 820)) @@ ("7d" :> TestEntry(37000, 37500, 1350))

changes_down ==
  ("1d" :> TestEntry(40000, 34000, -15000)) @@ ("2d" :> TestEntry(36000, 36000, 0))
  @@ ("3d" :> TestEntry(36500, 36500, 0)) @@ ("7d" :> TestEntry(37000, 37000, 0))

\* Change sets handed to should_tweet: those three, None, and the ones that
\* twitter_bot.calculate_changes builds when the 1d rate goes from 35.0 to a
\* value around 40.0 or down to 29.0 while 7d stays or rises by 5.0.
TweetInputs ==
  {changes_big, changes_small, changes_down, None}
  \cup { twitter_calculate_changes(Snapshot(35000, 0),
                                   [Snapshot(q1, 1) EXCEPT !["7d"] = q7]) :
           q1 \in {35000, 39999, 40000, 40001, 29000}, q7 \in {37000, 42000} }

\* ------------------------------------------------- pure functions (main.py)
\* Mutant of should_notify_user: the threshold is compared with the relative
\* change of the tenor.
should_notify_user_Relative(subscription, changes) ==
  CASE subscription.subscription_type = NONE -> FALSE
    [] subscription.subscription_type = ANY_CHANGE ->
         \E period \in DOMAIN changes : changes[period].changed
    [] subscription.subscription_type = PERCENTAGE ->
         \E period \in DOMAIN changes :
            /\ changes[period].changed
            /\ FloatGe(Abs(changes[period].percentage), subscription.threshold_percentage)
    [] OTHER -> FALSE

should_notify_user(subscription, changes) ==
  CASE subscription.subscription_type = NONE -> FALSE
    [] subscription.subscription_type = ANY_CHANGE ->
         \E period \in DOMAIN changes : changes[period].changed
    [] subscription.subscription_type = PERCENTAGE ->
         \E period \in DOMAIN changes :
            /\ changes[period].changed
            /\ FloatGe(Abs(changes[period].absolute), subscription.threshold_percentage)
    [] OTHER -> FALSE

\* ------------------------------------------ PostgreSQLPersistence (main.py)
\* init_db on one table of the database, which exists with some rows or does
\* not exist: CREATE TABLE IF NOT EXISTS creates a missing table empty and
\* leaves an existing one as it is, whatever its columns.  A row is a
\* function from its columns, so its shape is its domain.
init_db(table) ==
  IF table.exists THEN table ELSE [exists |-> TRUE, rows |-> <<>>]

\* A row of a rate_history table in an earlier layout of three tenors.
LegacyRow(a, b, c, ts) ==
  ("legacy_1" :> a) @@ ("legacy_2" :> b) @@ ("legacy_3" :> c) @@ ("timestamp" :> ts)

\* rate_history tables that init_db may find: none, an empty one, one and
\* two rows in the layout of the CREATE TABLE statement, one and two rows in
\* the earlier layout.
InitDbInputs ==
  { [exists |-> FALSE, rows |-> <<>>],
    [exists |-> TRUE, rows |-> <<>>],
    [exists |-> TRUE, rows |-> <<Snapshot(35000, 0)>>],
    [exists |-> TRUE, rows |-> <<Snapshot(35000, 0), Snapshot(37000, 1)>>],
    [exists |-> TRUE, rows |-> <<LegacyRow(35000, 36000, 37000, 0)>>],
    [exists |-> TRUE, rows |-> <<LegacyRow(35000, 36000, 37000, 0),
                                  LegacyRow(35400, 36000, 39500, 1)>>] }

\* SELECT ... FROM subscriptions ORDER BY created_at DESC, into a dict
load_subscriptions(table) == Reverse(table)

\* Mutant of save_subscription: a plain INSERT without the conflict clause
\* on a table without the primary key.
save_subscription_PlainInsert(table, subscription) == Append(table, subscription)

\* INSERT ... ON CONFLICT (chat_id) DO UPDATE: created_at, hence the row's
\* position, is kept on conflict.  threshold_percentage is a REAL column: a
\* value of at most six significant digits, as every threshold here, is read
\* back as the float that was written, and NaN is stored as NaN.
save_subscription(table, subscription) == DictSet(table, subscription)

\* DELETE FROM subscriptions WHERE chat_id = %s (no row: no effect)
delete_subscription(table, chat_id) == DictDel(table, chat_id)

\* INSERT INTO rate_history
save_rate_history(table, rates) == Append(table, rates)

\* Mutant of get_latest_rates: ORDER BY id without DESC.
get_latest_rates_Oldest(table) == IF Len(table) = 0 THEN None ELSE table[1]

\* SELECT ... ORDER BY id DESC LIMIT 1
get_latest_rates(table) == IF Len(table) = 0 THEN None ELSE table[Len(table)]

\* INSERT INTO suggestions (chat_id, username, message): id is the next
\* value of the serial, read defaults to FALSE and created_at to the time of
\* the insert.
save_suggestion(table, chat_id, username, message, now) ==
  Append(table, [id |-> Len(table) + 1, chat_id |-> chat_id,
                 username |-> username, message |-> message,
                 read |-> FALSE, created_at |-> now])

\* Mutant of mark_suggestion_read: the flag of the row is inverted.
mark_suggestion_read_Toggles(table, suggestion_id) ==
  [i \in DOMAIN table |->
     IF table[i].id = suggestion_id
     THEN [table[i] EXCEPT !.read = ~table[i].read]
     ELSE table[i]]

\* UPDATE suggestions SET read = TRUE WHERE id = %s (no row: no effect)
mark_suggestion_read(table, suggestion_id) ==
  [i \in DOMAIN table |->
     IF table[i].id = suggestion_id
     THEN [table[i] EXCEPT !.read = TRUE]
     ELSE table[i]]

\* Mutant of UsesWriteLock: only the two subscription writers take the lock.
UsesWriteLock_SubscriptionsOnly(op) ==
  op \in {"save_subscription", "delete_subscription"}

\* The store methods whose body is inside `async with self.write_lock`.
UsesWriteLock(op) ==
  op \in {"save_subscription", "delete_subscription", "save_suggestion"}


\* ------------------------------------------------------------------- Init
\* The state after CaucionBot.__init__ and post_init's connect_ppi, on a
\* database without subscriptions whose rate history is empty or holds one
\* row of an earlier run.
Init ==
  /\ subs_table = <<>>
  /\ rate_history \in {<<>>, <<Snapshot(35000, 0)>>}
  /\ subscriptions = load_subscriptions(subs_table)
  /\ last_rates = get_latest_rates(rate_history)
  /\ stats = ZeroStats
  /\ ppi \in {connect_ppi("none", o) : o \in ConnectOutcomes}
  /\ user_data = [c \in Chats |-> [waiting_custom_threshold |-> FALSE,
                                   waiting_suggestion |-> FALSE]]
  /\ clock = 0
  /\ tick_state = "none"
  /\ tick_new = None
  /\ tick_changes = None
  /\ tick_items = <<>>
  /\ tick_idx = 0
  /\ sent_to = {}
  /\ unreachable = {}
  /\ call_args = [fn |-> "none"]
  /\ call_result = None
  /\ suggestions = <<>>
  /\ write_lock = 0
  /\ store_task = [t \in StoreTasks |-> IdleTask]
  /\ serving = TRUE
  /\ jobs = AllJobs
  /\ loop = "idle"
  /\ status_line = None

\* ---------------------------------------------- check_rates_and_notify
Bump(field) == [stats EXCEPT ![field] = @ + 1]

\* The for loop of the fan-out from position `from` on: the first entry that
\* should_notify_user accepts (0 when there is none).
NextMatch(items, changes, from) ==
  LET S == {i \in from..Len(items) : should_notify_user(items[i], changes)}
  IN IF S = {} THEN 0 ELSE CHOOSE i \in S : \A j \in S : i <= j

\* The callback returns or raises: its locals are gone.
TickReturns(state) ==
  /\ tick_state' = state
  /\ tick_new' = None
  /\ tick_changes' = None
  /\ tick_items' = <<>>
  /\ tick_idx' = 0

\* Lines 1367-1391: run the loop up to the next send_message (the tick is
\* suspended there), or to its end, where last_rates is replaced.
Tick_FanOut(new_rates, changes, items, from, started) ==
  LET j == NextMatch(items, changes, from)
  IN IF j = 0
     THEN /\ last_rates' = new_rates
          /\ sent_to' = {}
          /\ TickReturns("ChangeDetected")
     ELSE /\ tick_state' = "Dispatching"
          /\ tick_new' = new_rates
          /\ tick_changes' = changes
          /\ tick_items' = items
          /\ tick_idx' = j
          /\ sent_to' = started \cup {items[j].chat_id}
          /\ UNCHANGED last_rates

\* Mutant of Tick_Compare: the first snapshot is counted but not remembered.
Tick_Compare_NotRemembered(new_rates) ==
  IF last_rates = None
  THEN /\ stats' = Bump("checks")
       /\ sent_to' = {}
       /\ UNCHANGED last_rates
       /\ TickReturns("FirstObservation")
  ELSE LET changes == calculate_changes(last_rates, new_rates)
           has_changes == \E period \in DOMAIN changes : changes[period].changed
       IN IF has_changes
          THEN /\ stats' = [stats EXCEPT !.checks = @ + 1, !.changes_detected = @ + 1]
               /\ Tick_FanOut(new_rates, changes, subscriptions, 1, {})
          ELSE /\ stats' = Bump("checks")
               /\ sent_to' = {}
               /\ UNCHANGED last_rates
               /\ TickReturns("NoChange")

\* Lines 1338-1365: count the check, first observation, diff.
Tick_Compare(new_rates) ==
  IF last_rates = None
  THEN /\ stats' = Bump("checks")
       /\ last_rates' = new_rates
       /\ sent_to' = {}
       /\ TickReturns("FirstObservation")
  ELSE LET changes == calculate_changes(last_rates, new_rates)
           has_changes == \E period \in DOMAIN changes : changes[period].changed
       IN IF has_changes
          THEN /\ stats' = [stats EXCEPT !.checks = @ + 1, !.changes_detected = @ + 1]
               /\ Tick_FanOut(new_rates, changes, subscriptions, 1, {})
          ELSE /\ stats' = Bump("checks")
               /\ sent_to' = {}
               /\ UNCHANGED last_rates
               /\ TickReturns("NoChange")

\* Mutant of Tick_Persist: the store's exception is caught and logged, and
\* the tick goes on with a snapshot that was not appended.
Tick_Persist_Swallowed(new_rates, db_ok) ==
  /\ rate_history' = IF db_ok THEN save_rate_history(rate_history, new_rates)
                              ELSE rate_history
  /\ Tick_Compare(new_rates)

\* Mutant of Tick_Persist: a snapshot equal to the remembered one (within the
\* tolerance) is not appended.
Tick_Persist_ChangedOnly(new_rates, db_ok) ==
  IF db_ok
  THEN /\ rate_history' =
            IF \/ last_rates = None
               \/ \E period \in Tenors :
                     calculate_changes(last_rates, new_rates)[period].changed
            THEN save_rate_history(rate_history, new_rates)
            ELSE rate_history
       /\ Tick_Compare(new_rates)
  ELSE /\ sent_to' = {}
       /\ UNCHANGED <<rate_history, last_rates, stats>>
       /\ TickReturns("PersistFailed")

\* Lines 1336-1337: save_rate_history is not guarded, so an exception of the
\* store (db_ok = FALSE) leaves the callback.
Tick_Persist(new_rates, db_ok) ==
  IF db_ok
  THEN /\ rate_history' = save_rate_history(rate_history, new_rates)
       /\ Tick_Compare(new_rates)
  ELSE /\ sent_to' = {}
       /\ UNCHANGED <<rate_history, last_rates, stats>>
       /\ TickReturns("PersistFailed")

\* Mutant of Tick_Open: a failed fetch is fetched again at once, and only
\* the second failure is counted.
Tick_Open_Retry(conn, answers, quote, db_ok) ==
  LET client == IF ppi = "none" THEN connect_ppi(ppi, conn) ELSE ppi
      new_rates == get_caucion_rates(client, answers, quote, clock + 1)
  IN /\ clock < MaxClock
     /\ ppi' = client
     /\ IF new_rates = None
        THEN /\ clock' = IF clock + 1 < MaxClock THEN clock + 2 ELSE clock + 1
             /\ stats' = Bump("api_errors")
             /\ sent_to' = {}
             /\ UNCHANGED <<rate_history, last_rates>>
             /\ TickReturns("FetchFailed")
        ELSE /\ clock' = clock + 1
             /\ Tick_Persist(new_rates, db_ok)

\* Lines 1325-1391: the tick once the market is known to be open.
Tick_Open(conn, answers, quote, db_ok) ==
  LET client == IF ppi = "none" THEN connect_ppi(ppi, conn) ELSE ppi
      new_rates == get_caucion_rates(client, answers, quote, clock + 1)
  IN /\ clock < MaxClock
     /\ clock' = clock + 1
     /\ ppi' = client
     /\ IF new_rates = None
        THEN /\ stats' = Bump("api_errors")
             /\ sent_to' = {}
             /\ UNCHANGED <<rate_history, last_rates>>
             /\ TickReturns("FetchFailed")
        ELSE Tick_Persist(new_rates, db_ok)

\* Mutant of check_rates_and_notify: the market-hours gate is missing.
check_rates_and_notify_Ungated(now, conn, answers, quote, db_ok) ==
  /\ tick_state # "Dispatching"
  /\ Tick_Open(conn, answers, quote, db_ok)
  /\ UNCHANGED <<subscriptions, subs_table, user_data, unreachable, calls, rest>>

\* The timer fires.  The job queue runs one instance of a job at a time, so
\* no tick starts while the previous one is still in its fan-out.
check_rates_and_notify(now, conn, answers, quote, db_ok) ==
  /\ tick_state # "Dispatching"
  /\ IF ~is_market_open(now)
     THEN /\ sent_to' = {}
          /\ UNCHANGED <<ppi, clock, rate_history, last_rates, stats>>
          /\ TickReturns("MarketClosed")
     ELSE Tick_Open(conn, answers, quote, db_ok)
  /\ UNCHANGED <<subscriptions, subs_table, user_data, unreachable, calls, rest>>

\* Mutant of Tick_SendRaised: a blocked recipient is logged and counted but
\* stays in self.subscriptions.
Tick_SendRaised_Kept(chat_id, blocked) ==
  /\ unreachable' = IF blocked THEN unreachable \cup {chat_id} ELSE unreachable
  /\ UNCHANGED subscriptions
  /\ Tick_FanOut(tick_new, tick_changes, tick_items, tick_idx + 1, sent_to)

\* Mutant of Tick_SendRaised: every failed send removes the recipient.
Tick_SendRaised_AnyFailure(chat_id, blocked) ==
  /\ unreachable' = IF blocked THEN unreachable \cup {chat_id} ELSE unreachable
  /\ IF chat_id \in Keys(subscriptions)
     THEN /\ subscriptions' = DictDel(subscriptions, chat_id)
          /\ Tick_FanOut(tick_new, tick_changes, tick_items, tick_idx + 1, sent_to)
     ELSE /\ sent_to' = {}
          /\ UNCHANGED <<subscriptions, last_rates>>
          /\ TickReturns("Raised")

\* Lines 1380-1385: the except clause of the send to chat_id.
Tick_SendRaised(chat_id, blocked) ==
  IF ~blocked
  THEN /\ UNCHANGED <<subscriptions, unreachable>>
       /\ Tick_FanOut(tick_new, tick_changes, tick_items, tick_idx + 1, sent_to)
  ELSE /\ unreachable' = unreachable \cup {chat_id}
       /\ IF chat_id \in Keys(subscriptions)
          THEN /\ subscriptions' = DictDel(subscriptions, chat_id)
               /\ Tick_FanOut(tick_new, tick_changes, tick_items, tick_idx + 1, sent_to)
          ELSE \* del raises KeyError inside the handler: the callback ends
               /\ sent_to' = {}
               /\ UNCHANGED <<subscriptions, last_rates>>
               /\ TickReturns("Raised")

\* The awaited send_message of the suspended tick completes.
send_message_returns(outcome) ==
  /\ tick_state = "Dispatching"
  /\ IF outcome = "Delivered"
     THEN /\ stats' = Bump("notifications_sent")
          /\ UNCHANGED <<subscriptions, unreachable>>
          /\ Tick_FanOut(tick_new, tick_changes, tick_items, tick_idx + 1, sent_to)
     ELSE /\ stats' = Bump("notification_errors")
          /\ Tick_SendRaised(tick_items[tick_idx].chat_id, outcome = "Blocked")
  /\ UNCHANGED <<ppi, user_data, subs_table, rate_history, clock, calls, rest>>

\* ---------------------------------------------- fetch_closing_rates_job
\* Mutant of fetch_closing_rates_job: rates equal to the remembered ones are
\* taken as already captured and are not stored again.
fetch_closing_rates_job_SkipsCaptured(conn, answers, quote, db_ok) ==
  LET client == IF ppi = "none" THEN connect_ppi(ppi, conn) ELSE ppi
      rates == get_caucion_rates(client, answers, quote, clock + 1)
      captured == /\ rates # None
                  /\ last_rates # None
                  /\ \A period \in Tenors : rates[period] = last_rates[period]
  IN /\ clock < MaxClock
     /\ clock' = clock + 1
     /\ ppi' = client
     /\ IF rates = None \/ captured
        THEN UNCHANGED <<rate_history, last_rates>>
        ELSE IF db_ok
             THEN /\ rate_history' = save_rate_history(rate_history, rates)
                  /\ last_rates' = rates
             ELSE UNCHANGED <<rate_history, last_rates>>
     /\ UNCHANGED <<subscriptions, stats, user_data, subs_table, tick_state,
                    tick_locals, sent_to, unreachable, calls, rest>>

fetch_closing_rates_job(conn, answers, quote, db_ok) ==
  LET client == IF ppi = "none" THEN connect_ppi(ppi, conn) ELSE ppi
      rates == get_caucion_rates(client, answers, quote, clock + 1)
  IN /\ clock < MaxClock
     /\ clock' = clock + 1
     /\ ppi' = client
     /\ IF rates = None
        THEN UNCHANGED <<rate_history, last_rates>>
        ELSE IF db_ok
             THEN /\ rate_history' = save_rate_history(rate_history, rates)
                  /\ last_rates' = rates
             ELSE UNCHANGED <<rate_history, last_rates>>
     /\ UNCHANGED <<subscriptions, stats, user_data, subs_table, tick_state,
                    tick_locals, sent_to, unreachable, calls, rest>>

\* --------------------------------------------------------- log_status_job
\* f"{x:.2f}" of a rate: hundredths, the nearest to the thousandths given.
TwoDecimals(x) == (x + 5) \div 10

\* The [STATUS] line without its uptime, which is read off the wall clock.
StatusLine(now) ==
  [market |-> IF is_market_open(now) THEN "ABIERTO" ELSE "CERRADO",
   subs |-> Len(subscriptions),
   checks |-> stats.checks,
   changes_detected |-> stats.changes_detected,
   notifications_sent |-> stats.notifications_sent,
   rates_info |-> IF last_rates = None THEN "N/A" ELSE TwoDecimals(last_rates["1d"])]

\* Mutant of log_status_job: the counters start again from zero once they
\* have been reported.
log_status_job_ResetsCounters(now) ==
  /\ status_line' = StatusLine(now)
  /\ stats' = ZeroStats
  /\ UNCHANGED <<subscriptions, last_rates, ppi, user_data, subs_table,
                 rate_history, clock, tick_state, tick_locals, sent_to,
                 unreachable, calls, suggestions, write_lock, store_task,
                 serving, jobs>>

log_status_job(now) ==
  /\ status_line' = StatusLine(now)
  /\ UNCHANGED <<subscriptions, last_rates, stats, ppi, user_data, subs_table,
                 rate_history, clock, tick_state, tick_locals, sent_to,
                 unreachable, calls, suggestions, write_lock, store_task,
                 serving, jobs>>

\* ------------------------------------------------------- user commands
\* self.subscriptions[chat_id] = subscription, then
\* await self._save_subscription(subscription), which raises when the store
\* cannot be written (db_ok = FALSE).
SetAndSave(subscription, db_ok) ==
  /\ subscriptions' = DictSet(subscriptions, subscription)
  /\ subs_table' = IF db_ok THEN save_subscription(subs_table, subscription)
                            ELSE subs_table
  /\ unreachable' = unreachable \ {subscription.chat_id}

\* float(data.replace("config_", "")), in thousandths
ButtonThreshold(data) ==
  CASE data = "config_0.5" -> 500
    [] data = "config_1.0" -> 1000
    [] data = "config_2.0" -> 2000
    [] data = "config_5.0" -> 5000

button_callback(chat_id, data, db_ok) ==
  /\ CASE data = "config_any_change" ->
            /\ SetAndSave(UserSubscription(chat_id, ANY_CHANGE, 0), db_ok)
            /\ UNCHANGED user_data
       [] data = "config_custom" ->
            /\ user_data' = [user_data EXCEPT ![chat_id].waiting_custom_threshold = TRUE]
            /\ UNCHANGED <<subscriptions, subs_table, unreachable>>
       [] OTHER ->
            /\ SetAndSave(UserSubscription(chat_id, PERCENTAGE, ButtonThreshold(data)), db_ok)
            /\ UNCHANGED user_data
  /\ UNCHANGED <<last_rates, stats, ppi, rate_history, clock, tick_state,
                 tick_locals, sent_to, calls, rest>>

\* float(text.strip().replace(',', '.')) raises ValueError on these
NotANumber(text) == text \in {"abc", "hola", "  hey ", "mas tenores"}

\* its value otherwise, in thousandths
ParseFloat(text) ==
  CASE text = "0,3" -> 300
    [] text = "-1" -> -1000
    [] text = "101" -> 101000
    [] text = "nan" -> NaN
    [] text = "12,50" -> 12500

\* update.message.text.strip()
Strip(text) == IF text = "  hey " THEN "hey" ELSE text

\* Lines 1228-1288: the branch of a pending custom threshold.
Message_CustomThreshold(chat_id, text, db_ok) ==
  IF NotANumber(text)
  THEN UNCHANGED <<subscriptions, subs_table, unreachable, user_data>>
  ELSE LET percentage == ParseFloat(text)
       IN IF FloatLt(percentage, 0) \/ FloatGt(percentage, 100000)
          THEN UNCHANGED <<subscriptions, subs_table, unreachable, user_data>>
          ELSE /\ SetAndSave(UserSubscription(chat_id, PERCENTAGE, percentage), db_ok)
               /\ user_data' = IF db_ok
                               THEN [user_data EXCEPT ![chat_id].waiting_custom_threshold = FALSE]
                               ELSE user_data

\* Lines 1290-1313: the branch of a pending suggestion.  save_suggestion
\* raises when the store cannot be written (db_ok = FALSE), before the flag
\* is cleared.
Message_Suggestion(chat_id, text, db_ok) ==
  LET message_text == Strip(text)
  IN IF Len(message_text) < 5
     THEN UNCHANGED <<suggestions, user_data>>
     ELSE /\ suggestions' = IF db_ok
                            THEN save_suggestion(suggestions, chat_id, "user",
                                                 message_text, clock)
                            ELSE suggestions
          /\ user_data' = IF db_ok
                          THEN [user_data EXCEPT ![chat_id].waiting_suggestion = FALSE]
                          ELSE user_data

handle_message(chat_id, text, db_ok) ==
  /\ IF user_data[chat_id].waiting_custom_threshold
     THEN /\ Message_CustomThreshold(chat_id, text, db_ok)
          /\ UNCHANGED suggestions
     ELSE IF user_data[chat_id].waiting_suggestion
     THEN /\ Message_Suggestion(chat_id, text, db_ok)
          /\ UNCHANGED <<subscriptions, subs_table, unreachable>>
     ELSE \* the welcome message is sent
          UNCHANGED <<subscriptions, subs_table, unreachable, user_data, suggestions>>
  /\ UNCHANGED <<last_rates, stats, ppi, rate_history, clock, tick_state,
                 tick_locals, sent_to, calls, write_lock, store_task, serving,
                 jobs, status_line>>

\* Lines 804-816: /sugerencia
sugerencia_command(chat_id) ==
  /\ user_data' = [user_data EXCEPT ![chat_id].waiting_suggestion = TRUE]
  /\ UNCHANGED <<subscriptions, last_rates, stats, ppi, subs_table, rate_history,
                 clock, tick_state, tick_locals, sent_to, unreachable, calls, rest>>

\* Mutant of pausar_command: the entry is kept with the policy "none".
pausar_command_MarksNone(chat_id, db_ok) ==
  /\ IF chat_id \in Keys(subscriptions)
     THEN /\ subscriptions' = DictSet(subscriptions, UserSubscription(chat_id, NONE, 0))
          /\ subs_table' = IF db_ok
                           THEN save_subscription(subs_table, UserSubscription(chat_id, NONE, 0))
                           ELSE subs_table
     ELSE UNCHANGED <<subscriptions, subs_table>>
  /\ UNCHANGED <<last_rates, stats, ppi, user_data, rate_history, clock,
                 tick_state, tick_locals, sent_to, unreachable, calls, rest>>

pausar_command(chat_id, db_ok) ==
  /\ IF chat_id \in Keys(subscriptions)
     THEN /\ subscriptions' = DictDel(subscriptions, chat_id)
          /\ subs_table' = IF db_ok THEN delete_subscription(subs_table, chat_id)
                                    ELSE subs_table
     ELSE UNCHANGED <<subscriptions, subs_table>>
  /\ UNCHANGED <<last_rates, stats, ppi, user_data, rate_history, clock,
                 tick_state, tick_locals, sent_to, unreachable, calls, rest>>

\* ------------------------------------------- direct calls of the functions
\* self.is_market_open() at the instant utc
call_is_market_open(utc) ==
  /\ call_args' = [fn |-> "is_market_open", utc |-> utc]
  /\ call_result' = is_market_open(datetime_now(utc))
  /\ UNCHANGED program

\* self.calculate_changes(old_rates, new_rates)
call_calculate_changes(old_rates, new_rates) ==
  /\ call_args' = [fn |-> "calculate_changes", old_rates |-> old_rates,
                    new_rates |-> new_rates]
  /\ call_result' = calculate_changes(old_rates, new_rates)
  /\ UNCHANGED program

\* The init_db of PostgreSQLPersistence.__init__, on the rate_history table.
call_init_db(table) ==
  /\ call_args' = [fn |-> "init_db", table |-> table]
  /\ call_result' = init_db(table)
  /\ UNCHANGED program

\* TwitterBot.should_tweet(changes)
call_should_tweet(changes) ==
  /\ call_args' = [fn |-> "should_tweet", changes |-> changes]
  /\ call_result' = should_tweet(changes)
  /\ UNCHANGED program

\* twitter_bot.calculate_changes(old_rates, new_rates)
call_twitter_calculate_changes(old_rates, new_rates) ==
  /\ call_args' = [fn |-> "twitter_calculate_changes", old_rates |-> old_rates,
                    new_rates |-> new_rates]
  /\ call_result' = twitter_calculate_changes(old_rates, new_rates)
  /\ UNCHANGED program

\* self.should_notify_user(subscription, changes) for the change set that
\* calculate_changes builds from two snapshots
call_should_notify_user(subscription, old_rates, new_rates) ==
  LET changes == calculate_changes(old_rates, new_rates)
  IN /\ call_args' = [fn |-> "should_notify_user", subscription |-> subscription,
                       changes |-> changes]
     /\ call_result' = should_notify_user(subscription, changes)
     /\ UNCHANGED program

\* ------------------------------------------------------ store methods
\* A coroutine calls one of the three `async def` methods of the store.
\* The steps of such a method are taken one at a time and coroutines
\* interleave between any two of them: this allows every schedule of the
\* event loop, which switches coroutines only where one awaits, and more.
store_call(t, op, arg) ==
  /\ store_task[t] = IdleTask
  /\ store_task' = [store_task EXCEPT ![t] = [op |-> op, arg |-> arg, stage |-> "called"]]
  /\ UNCHANGED <<subscriptions, last_rates, stats, ppi, user_data, subs_table,
                 rate_history, clock, tick_state, tick_locals, sent_to,
                 unreachable, calls, suggestions, write_lock, serving, jobs,
                 status_line>>

\* async with self.write_lock: the caller goes on when the lock is free and
\* waits while another coroutine holds it.  A method without the statement
\* goes on at once.
store_enter(t) ==
  /\ store_task[t].op # "idle"
  /\ store_task[t].stage = "called"
  /\ IF UsesWriteLock(store_task[t].op)
     THEN write_lock = 0 /\ write_lock' = t
     ELSE UNCHANGED write_lock
  /\ store_task' = [store_task EXCEPT ![t].stage = "writing"]
  /\ UNCHANGED <<subscriptions, last_rates, stats, ppi, user_data, subs_table,
                 rate_history, clock, tick_state, tick_locals, sent_to,
                 unreachable, calls, suggestions, serving, jobs, status_line>>

\* The statement is executed and committed, the lock is released on leaving
\* the `async with` block, and the method returns.
store_write(t) ==
  LET op == store_task[t].op
      arg == store_task[t].arg
  IN /\ op # "idle"
     /\ store_task[t].stage = "writing"
     /\ subs_table' =
          CASE op = "save_subscription" -> save_subscription(subs_table, arg)
            [] op = "delete_subscription" -> delete_subscription(subs_table, arg)
            [] OTHER -> subs_table
     /\ suggestions' =
          IF op = "save_suggestion"
          THEN save_suggestion(suggestions, arg.chat_id, arg.username,
                               arg.message, clock)
          ELSE suggestions
     /\ write_lock' = IF UsesWriteLock(op) THEN 0 ELSE write_lock
     /\ store_task' = [store_task EXCEPT ![t] = IdleTask]
     /\ UNCHANGED <<subscriptions, last_rates, stats, ppi, user_data,
                    rate_history, clock, tick_state, tick_locals, sent_to,
                    unreachable, calls, serving, jobs, status_line>>

\* The plain `def` methods of the store run from call to return without a
\* point where the event loop could switch to another coroutine; none of
\* them reads or takes self.write_lock.
call_save_rate_history(quote) ==
  /\ clock < MaxClock
  /\ clock' = clock + 1
  /\ rate_history' = save_rate_history(rate_history, Snapshot(quote, clock + 1))
  /\ UNCHANGED <<subscriptions, last_rates, stats, ppi, user_data, subs_table,
                 tick_state, tick_locals, sent_to, unreachable, calls, rest>>

call_mark_suggestion_read(suggestion_id) ==
  /\ suggestions' = mark_suggestion_read(suggestions, suggestion_id)
  /\ UNCHANGED <<subscriptions, last_rates, stats, ppi, user_data, subs_table,
                 rate_history, clock, tick_state, tick_locals, sent_to,
                 unreachable, calls, write_lock, store_task, serving, jobs,
                 status_line>>

call_get_latest_rates ==
  /\ call_args' = [fn |-> "get_latest_rates", table |-> rate_history]
  /\ call_result' = get_latest_rates(rate_history)
  /\ UNCHANGED program

\* Mutant of Restart: the constructor leaves last_rates as line 458 set it
\* and does not read the history.
Restart_ColdStart(conn) ==
  /\ subscriptions' = load_subscriptions(subs_table)
  /\ last_rates' = None
  /\ stats' = ZeroStats
  /\ ppi' = connect_ppi("none", conn)
  /\ user_data' = [c \in Chats |-> [waiting_custom_threshold |-> FALSE,
                                   waiting_suggestion |-> FALSE]]
  /\ sent_to' = {}
  /\ unreachable' = {}
  /\ TickReturns("none")
  /\ write_lock' = 0
  /\ store_task' = [t \in StoreTasks |-> IdleTask]
  /\ serving' = TRUE
  /\ jobs' = AllJobs
  /\ UNCHANGED <<subs_table, rate_history, suggestions, clock, calls, status_line>>

\* ---------------------------------------------------------------- restart
\* The process stops at any point and is started again: CaucionBot.__init__
\* rebuilds the in-memory state from the store, post_init connects to PPI.
Restart(conn) ==
  /\ subscriptions' = load_subscriptions(subs_table)
  /\ last_rates' = get_latest_rates(rate_history)
  /\ stats' = ZeroStats
  /\ ppi' = connect_ppi("none", conn)
  /\ user_data' = [c \in Chats |-> [waiting_custom_threshold |-> FALSE,
                                   waiting_suggestion |-> FALSE]]
  /\ sent_to' = {}
  /\ unreachable' = {}
  /\ TickReturns("none")
  /\ write_lock' = 0
  /\ store_task' = [t \in StoreTasks |-> IdleTask]
  /\ serving' = TRUE
  /\ jobs' = AllJobs
  /\ UNCHANGED <<subs_table, rate_history, suggestions, clock, calls, status_line>>

\* The process is started while the store cannot be reached: the
\* environment lacks a DB_* variable (EnvironmentError), check_connection
\* fails (ConnectionError), or a connection of init_db, load_subscriptions
\* or get_latest_rates is refused (OperationalError).
StartupFailures == {"EnvironmentError", "ConnectionError", "OperationalError"}

\* Mutant of main_raises: the constructor goes on with an empty registry and
\* the bot runs.
main_raises_Degraded(exception) ==
  /\ subscriptions' = <<>>
  /\ last_rates' = None
  /\ stats' = ZeroStats
  /\ ppi' = "none"
  /\ user_data' = [c \in Chats |-> [waiting_custom_threshold |-> FALSE,
                                   waiting_suggestion |-> FALSE]]
  /\ sent_to' = {}
  /\ unreachable' = {}
  /\ TickReturns("none")
  /\ write_lock' = 0
  /\ store_task' = [t \in StoreTasks |-> IdleTask]
  /\ serving' = TRUE
  /\ jobs' = AllJobs
  /\ UNCHANGED <<subs_table, rate_history, suggestions, clock, calls, status_line>>

\* main() when CaucionBot(...) raises: the exception leaves
\* PostgreSQLPersistence.__init__ or one of the two loads, CaucionBot.__init__
\* and main(), which has no handler for it; bot.run() is not reached, so no
\* application is built, post_init is not called and nothing polls.  No
\* CaucionBot object exists: its attributes are shown as those of none.
main_raises(exception) ==
  /\ subscriptions' = <<>>
  /\ last_rates' = None
  /\ stats' = ZeroStats
  /\ ppi' = "none"
  /\ user_data' = [c \in Chats |-> [waiting_custom_threshold |-> FALSE,
                                   waiting_suggestion |-> FALSE]]
  /\ sent_to' = {}
  /\ unreachable' = {}
  /\ TickReturns("none")
  /\ write_lock' = 0
  /\ store_task' = [t \in StoreTasks |-> IdleTask]
  /\ serving' = FALSE
  /\ jobs' = {}
  /\ UNCHANGED <<subs_table, rate_history, suggestions, clock, calls, status_line>>

\* ------------------------------------------------------------------- Next
Bool == {TRUE, FALSE}

\* The application dispatches an update to its handler: it is serving and
\* no callback holds the event loop, which is free again when the handler
\* suspends or returns.
Dispatch == serving /\ loop = "idle" /\ loop' = "idle"

\* The job queue starts a registered job.
JobRuns(name) == name \in jobs /\ Dispatch

\* Inputs that the handler does not read in the current state are fixed, so
\* that equal steps are not enumerated many times over.
TickInputs(now) ==
  \E conn \in (IF is_market_open(now) /\ ppi = "none" THEN ConnectOutcomes ELSE {"ok"}) :
    \E answers \in (IF is_market_open(now) THEN Bool ELSE {TRUE}) :
      \E quote \in (IF is_market_open(now) /\ answers THEN Quotes1d ELSE {35000}) :
        \E db_ok \in (IF is_market_open(now) /\ answers THEN Bool ELSE {TRUE}) :
          check_rates_and_notify(now, conn, answers, quote, db_ok)

TickFiresAt(now) == JobRuns("check_rates_and_notify") /\ TickInputs(now)

TickFires == \E now \in ClockSamples : TickFiresAt(now)

SendCompletes ==
  Dispatch /\ \E outcome \in SendOutcomes : send_message_returns(outcome)

ClosingInputs ==
  \E conn \in (IF ppi = "none" THEN ConnectOutcomes ELSE {"ok"}), answers \in Bool :
    \E quote \in (IF answers THEN Quotes1d ELSE {35000}) :
      \E db_ok \in (IF answers THEN Bool ELSE {TRUE}) :
        fetch_closing_rates_job(conn, answers, quote, db_ok)

ClosingFires == JobRuns("fetch_closing_rates_job") /\ ClosingInputs

ButtonPressed ==
  Dispatch /\ \E chat_id \in Chats, data \in ButtonData, db_ok \in Bool :
       button_callback(chat_id, data, db_ok)

TextReceived ==
  Dispatch /\ \E chat_id \in Chats, text \in CustomTexts, db_ok \in Bool :
       handle_message(chat_id, text, db_ok)

PausarReceived ==
  Dispatch /\ \E chat_id \in Chats, db_ok \in Bool : pausar_command(chat_id, db_ok)

ProcessRestarts == loop' = "idle" /\ \E conn \in ConnectOutcomes : Restart(conn)

\* The whole program.
Next ==
  \/ TickFires
  \/ SendCompletes
  \/ ClosingFires
  \/ ButtonPressed
  \/ TextReceived
  \/ PausarReceived
  \/ ProcessRestarts

Spec == Init /\ [][Next]_vars

\* The monitor engine with its two timers, while users subscribe with the
\* configuration buttons and unsubscribe, the store accepting every
\* subscription write and the PPI login having succeeded at startup.
InitMonitor == Init /\ ppi = "auth"

SubscribeButton ==
  Dispatch /\ \E chat_id \in Chats, data \in {"config_any_change", "config_2.0"} :
       button_callback(chat_id, data, TRUE)

Pausar == Dispatch /\ \E chat_id \in Chats : pausar_command(chat_id, TRUE)

NextMonitor ==
  \/ TickFires
  \/ SendCompletes
  \/ ClosingFires
  \/ SubscribeButton
  \/ Pausar

SpecMonitor == InitMonitor /\ [][NextMonitor]_vars

\* The subscription commands against a store whose writes may fail, and
\* process restarts; no timer fires.
NextSubscriptions ==
  \/ ButtonPressed
  \/ TextReceived
  \/ PausarReceived
  \/ ProcessRestarts

SpecSubscriptions == Init /\ [][NextSubscriptions]_vars

\* The two conversations that wait for a text message: the custom
\* threshold, asked for with its button, and the suggestion, asked for with
\* /sugerencia.
CustomButtonPressed ==
  Dispatch /\ \E chat_id \in Chats : button_callback(chat_id, "config_custom", TRUE)

SugerenciaReceived == Dispatch /\ \E chat_id \in Chats : sugerencia_command(chat_id)

SuggestionTextReceived ==
  /\ Dispatch
  /\ Len(suggestions) < MaxSuggestions
  /\ \E chat_id \in Chats, text \in SuggestionTexts, db_ok \in Bool :
       handle_message(chat_id, text, db_ok)

NextFeedback ==
  \/ CustomButtonPressed
  \/ SugerenciaReceived
  \/ SuggestionTextReceived
  \/ TextReceived

SpecFeedback == InitMonitor /\ [][NextFeedback]_vars

\* The monitor engine and process restarts.
SpecLifecycle == InitMonitor /\ [][NextMonitor \/ ProcessRestarts]_vars

\* The pure functions, called on their own with inputs from the input sets.
InitCalls == Init /\ rate_history = <<>> /\ ppi = "auth"

CallIsMarketOpen == \E utc \in UtcInputs : call_is_market_open(utc)

CallShouldNotifyUser ==
  \E subscription \in SubscriptionInputs, old_rates \in OldRateInputs,
     new_rates \in NewRateInputs :
       call_should_notify_user(subscription, old_rates, new_rates)

CallCalculateChanges ==
  \E old_rates \in CalcOldInputs, new_rates \in CalcNewInputs :
     call_calculate_changes(old_rates, new_rates)

CallShouldTweet == \E changes \in TweetInputs : call_should_tweet(changes)

CallTwitterCalculateChanges ==
  \E old_rates \in CalcOldInputs, new_rates \in CalcNewInputs :
     call_twitter_calculate_changes(old_rates, new_rates)

CallInitDb == \E table \in InitDbInputs : call_init_db(table)

NextCalls ==
  \/ CallInitDb
  \/ CallIsMarketOpen
  \/ CallShouldNotifyUser
  \/ CallCalculateChanges
  \/ CallShouldTweet
  \/ CallTwitterCalculateChanges

SpecCalls == InitCalls /\ [][NextCalls]_vars

\* The periodic tick alone, from every outcome of the login at startup.
NextTicks ==
  \/ TickFires
  \/ SendCompletes
  \/ SubscribeButton

SpecTicks == Init /\ [][NextTicks]_vars

\* The two rate jobs, the tick and the closing job, with subscribers to any
\* change.
SubscribeAnyChange ==
  Dispatch /\ \E chat_id \in Chats : button_callback(chat_id, "config_any_change", TRUE)

NextRateJobs ==
  \/ TickFires
  \/ SendCompletes
  \/ ClosingFires
  \/ SubscribeAnyChange

SpecRateJobs == InitMonitor /\ [][NextRateJobs]_vars

\* The periodic tick over a feed that sometimes answers without a price for
\* PESOS1, with subscribers to any change.
DegenerateTickFires ==
  /\ JobRuns("check_rates_and_notify")
  /\ \E now \in ClockSamples, db_ok \in Bool :
        check_rates_and_notify(now, "ok", TRUE, DegenerateQuote, db_ok)

NextDegenerateFeed ==
  \/ TickFires
  \/ DegenerateTickFires
  \/ SendCompletes
  \/ SubscribeAnyChange

SpecDegenerateFeed == InitMonitor /\ [][NextDegenerateFeed]_vars

\* The tick and the status job, with subscribers to any change.
StatusFires ==
  JobRuns("log_status_job") /\ \E now \in ClockSamples : log_status_job(now)

NextStatus ==
  \/ TickFires
  \/ SendCompletes
  \/ SubscribeAnyChange
  \/ StatusFires

SpecStatus == InitMonitor /\ [][NextStatus]_vars

\* The store methods, called by two coroutines at a time.
Pending(op) == Cardinality({t \in StoreTasks : store_task[t].op = op})

\* Direct calls of the store methods: the three asynchronous writers, called
\* by coroutines that may be inside them at the same time, and the plain
\* methods.
SubscriptionCalls(chats) ==
  /\ Dispatch
  /\ \E t \in StoreTasks, chat_id \in chats :
       \/ store_call(t, "save_subscription", UserSubscription(chat_id, ANY_CHANGE, 0))
       \/ store_call(t, "delete_subscription", chat_id)

FeedbackCalls(chats) ==
  /\ Dispatch
  /\ Len(suggestions) + Pending("save_suggestion") < MaxSuggestions
  /\ \E t \in StoreTasks, chat_id \in chats :
       store_call(t, "save_suggestion",
                  [chat_id |-> chat_id, username |-> "user", message |-> "hola mundo"])

FeedbackMarked ==
  Dispatch /\ \E suggestion_id \in 1..MaxSuggestions :
                call_mark_suggestion_read(suggestion_id)

HistoryAppends(quotes) ==
  Dispatch /\ \E quote \in quotes : call_save_rate_history(quote)

HistoryRead == loop' = loop /\ call_get_latest_rates

StoreEntered == Dispatch /\ \E t \in StoreTasks : store_enter(t)

StoreWritten == Dispatch /\ \E t \in StoreTasks : store_write(t)

InitStore == InitMonitor /\ rate_history = <<>>

\* The five writing methods, with two coroutines inside the asynchronous
\* ones.
SubscriptionCalled == SubscriptionCalls(Chats)

FeedbackCalled == FeedbackCalls({1})

HistoryAppended == HistoryAppends({35000})

NextStore ==
  \/ SubscriptionCalled
  \/ FeedbackCalled
  \/ FeedbackMarked
  \/ HistoryAppended
  \/ StoreEntered
  \/ StoreWritten

SpecStore == InitStore /\ [][NextStore]_vars

\* The suggestions and rate_history tables with their writers and the
\* reader of the latter.
FeedbackCalledByAnyone == FeedbackCalls(Chats)

HistoryAppendedAnyQuote == HistoryAppends(Quotes1d)

NextTables ==
  \/ FeedbackCalledByAnyone
  \/ FeedbackMarked
  \/ HistoryAppendedAnyQuote
  \/ HistoryRead
  \/ StoreEntered
  \/ StoreWritten

SpecTables == InitStore /\ [][NextTables]_vars

\* The tick and the subscription commands across starts of the process,
\* with the store reachable or not when it starts.
StartupFails ==
  loop' = "idle" /\ \E exception \in StartupFailures : main_raises(exception)

NextStartup ==
  \/ TickFires
  \/ SendCompletes
  \/ SubscribeAnyChange
  \/ Pausar
  \/ ProcessRestarts
  \/ StartupFails

SpecStartup == InitMonitor /\ [][NextStartup]_vars

\* The tick and the closing job on the one event loop.  An open-market tick
\* calls the PPI client and psycopg2, which block: from the start of the
\* callback to its first await or its return no other callback can start.
\* The time of the closing job may come while the loop is held.
TickHoldsLoop ==
  /\ "check_rates_and_notify" \in jobs
  /\ serving
  /\ loop = "idle"
  /\ tick_state # "Dispatching"
  /\ loop' = "tick"
  /\ UNCHANGED <<subscriptions, last_rates, stats, ppi, user_data, subs_table,
                 rate_history, clock, tick_state, tick_locals, sent_to,
                 unreachable, calls, rest>>

CloseTimeComes ==
  /\ "fetch_closing_rates_job" \in jobs
  /\ loop = "tick"
  /\ loop' = "tick_close_due"
  /\ UNCHANGED <<subscriptions, last_rates, stats, ppi, user_data, subs_table,
                 rate_history, clock, tick_state, tick_locals, sent_to,
                 unreachable, calls, rest>>

TickReleasesLoop ==
  /\ loop \in {"tick", "tick_close_due"}
  /\ loop' = IF loop = "tick" THEN "idle" ELSE "close_due"
  /\ \E now \in ClockSamples : is_market_open(now) /\ TickInputs(now)

ClosingRunsLate ==
  /\ loop = "close_due"
  /\ loop' = "idle"
  /\ ClosingInputs

NextTimers ==
  \/ TickHoldsLoop
  \/ CloseTimeComes
  \/ TickReleasesLoop
  \/ ClosingRunsLate
  \/ ClosingFires
  \/ SendCompletes
  \/ SubscribeAnyChange

SpecTimers == InitMonitor /\ [][NextTimers]_vars

\* ================================================================ claims
Rows(table) == {table[i] : i \in DOMAIN table}

MatchingChats(items, changes) ==
  {items[i].chat_id : i \in {k \in DOMAIN items : should_notify_user(items[k], changes)}}

\* The step in which the fan-out of a tick ends, by reaching the end of the
\* loop or by an exception that leaves the callback.
FanOutEnds ==
  /\ tick_state = "Dispatching"
  /\ tick_state' \in {"ChangeDetected", "Raised"}

\* C1: while a tick is sending notifications, the snapshot it notifies about
\* is a row of the rate history; a tick whose append raised is over and has
\* started no send.
C1_PersistBeforeNotify ==
  /\ tick_state = "Dispatching" => tick_new \in Rows(rate_history)
  /\ sent_to # {} => tick_state = "Dispatching"
  /\ tick_state = "PersistFailed" => sent_to = {}

\* A tick ended because the append raised, although a subscriber was
\* registered and a previous snapshot was remembered.
C1_Witness ==
  /\ tick_state = "PersistFailed"
  /\ last_rates # None
  /\ \E i \in DOMAIN subscriptions : subscriptions[i].subscription_type = ANY_CHANGE

\* C2 (as claimed): when the fan-out of a tick ends, a send has been started
\* to exactly the chats of the registry whose policy matches the change set.
C2_FanOutReachesEveryMatch ==
  [][FanOutEnds => sent_to = MatchingChats(tick_items, tick_changes)]_vars

\* C3 (as claimed): once the tick is over, a chat whose send failed as
\* "bot was blocked" is in neither the registry nor the subscriptions table.
C3_BlockedRemovedEverywhere ==
  tick_state # "Dispatching" =>
    \A c \in unreachable : c \notin Keys(subscriptions) /\ c \notin Keys(subs_table)

\* C4: the chat a tick is sending to is never one whose send failed as
\* "bot was blocked" in a tick of this process since it last subscribed.
C4_NoSendAfterPermanentFailure ==
  tick_state = "Dispatching" => tick_items[tick_idx].chat_id \notin unreachable

\* A later tick is sending while some chat is marked unreachable.
C4_Witness ==
  /\ tick_state = "Dispatching"
  /\ unreachable # {}
  /\ stats.changes_detected >= 2

\* C5 (as claimed): a tick that persisted its snapshot and found no change
\* leaves that snapshot, the last row of the history, as last_rates.
C5_NoChangeRemembersCurrent ==
  [][(stats'.checks = stats.checks + 1 /\ tick_state' = "NoChange")
       => last_rates' = rate_history'[Len(rate_history')]]_vars

\* C6 (as claimed): whenever the fan-out of a tick ends, last_rates is the
\* snapshot of that tick.
C6_FanOutEndRemembersCurrent ==
  [][FanOutEnds => last_rates' = tick_new]_vars

\* C7 (as claimed): when a fan-out during which the closing job appended a
\* row reaches its end, last_rates is the last row of the history.
C7_LatestRowRemembered ==
  [][(/\ tick_state = "Dispatching"
      /\ tick_state' = "ChangeDetected"
      /\ rate_history[Len(rate_history)] # tick_new)
       => last_rates' = rate_history'[Len(rate_history')]]_vars

\* C8 (as claimed): every entry of the registry is a row of the
\* subscriptions table, with the same policy and threshold.
C8_RegistryMirrorsStore ==
  \A c \in Keys(subscriptions) :
     c \in Keys(subs_table) /\ AsMap(subs_table)[c] = AsMap(subscriptions)[c]

\* C9 (as claimed): a restart rebuilds the registry as it was.
C9_RestartKeepsRegistry ==
  [][(\E conn \in ConnectOutcomes : Restart(conn))
       => AsMap(subscriptions') = AsMap(subscriptions)]_vars

\* C10: a tick that fires while the market is closed calls no fetch, appends
\* no row, starts no send and changes neither last_rates, the registry, the
\* store nor a counter.
C10_ClosedTickIsNoOp ==
  [][\A now \in ClockSamples :
       (~is_market_open(now) /\ TickFiresAt(now))
       => /\ UNCHANGED <<clock, ppi, rate_history, last_rates, stats,
                         subscriptions, subs_table, unreachable>>
          /\ sent_to' = {}
          /\ tick_state' # "Dispatching"]_vars

\* A tick was turned away by the closed market in a process that has
\* subscribers and a remembered snapshot.
C10_Witness ==
  /\ tick_state = "MarketClosed"
  /\ last_rates # None
  /\ subscriptions # <<>>

\* What get_caucion_rates returns to a callback that runs now with these
\* inputs, and the step of an open-market tick that runs with them.
Fetched(conn, answers, quote) ==
  get_caucion_rates(IF ppi = "none" THEN connect_ppi(ppi, conn) ELSE ppi,
                    answers, quote, clock + 1)

OpenTick(conn, answers, quote, db_ok) ==
  \E now \in ClockSamples :
     is_market_open(now) /\ check_rates_and_notify(now, conn, answers, quote, db_ok)

\* C11: an open-market tick that fetches a snapshot while nothing is
\* remembered appends it to the history and remembers it; it computes no
\* change set, counts no change and starts no send.
C11_FirstObservation ==
  [][\A conn \in ConnectOutcomes, answers \in Bool, quote \in Quotes1d :
       (/\ last_rates = None
        /\ Fetched(conn, answers, quote) # None
        /\ OpenTick(conn, answers, quote, TRUE))
       => /\ rate_history' = Append(rate_history, Fetched(conn, answers, quote))
          /\ last_rates' = Fetched(conn, answers, quote)
          /\ tick_changes' = None
          /\ tick_state' # "Dispatching"
          /\ sent_to' = {}
          /\ stats'.changes_detected = stats.changes_detected
          /\ stats'.notifications_sent = stats.notifications_sent]_vars

\* The first snapshot was taken while a subscriber to any change was
\* registered.
C11_Witness ==
  /\ tick_state = "FirstObservation"
  /\ Len(rate_history) = 1
  /\ last_rates = rate_history[1]
  /\ \E i \in DOMAIN subscriptions : subscriptions[i].subscription_type = ANY_CHANGE

\* C12: an open-market tick whose fetch fails adds one to api_errors and
\* nothing else: one call of get_caucion_rates, no row, no send, last_rates
\* and every other counter as before.
C12_FetchFailureAbandonsTick ==
  [][\A conn \in ConnectOutcomes, answers \in Bool, quote \in Quotes1d :
       (/\ Fetched(conn, answers, quote) = None
        /\ OpenTick(conn, answers, quote, TRUE))
       => /\ stats' = [stats EXCEPT !.api_errors = @ + 1]
          /\ clock' = clock + 1
          /\ UNCHANGED <<rate_history, last_rates, subscriptions, subs_table>>
          /\ tick_state' # "Dispatching"
          /\ sent_to' = {}]_vars

\* A fetch failed in a tick although a snapshot was remembered and a
\* subscriber registered, and a later tick fetched again.
C12_Witness ==
  /\ tick_state = "FetchFailed"
  /\ stats.api_errors = 1
  /\ clock = 1
  /\ last_rates # None
  /\ subscriptions # <<>>

\* C13: an open-market tick whose fetch succeeds appends exactly one row,
\* its snapshot, before it is known whether the snapshot is the first, an
\* unchanged or a changed one.  The insert is the store's: when the store
\* raises instead, no row is appended and the tick ends there (C1).
C13_EveryFetchedSnapshotAppended ==
  [][\A conn \in ConnectOutcomes, answers \in Bool, quote \in Quotes1d, db_ok \in Bool :
       (/\ Fetched(conn, answers, quote) # None
        /\ OpenTick(conn, answers, quote, db_ok))
       => IF db_ok
          THEN /\ rate_history' = Append(rate_history, Fetched(conn, answers, quote))
               /\ tick_state' \in {"FirstObservation", "NoChange", "Dispatching",
                                   "ChangeDetected"}
          ELSE /\ rate_history' = rate_history
               /\ tick_state' = "PersistFailed"]_vars

\* A tick found its snapshot unchanged, and the snapshot is a new row next
\* to the row it was compared with.
C13_Witness ==
  /\ tick_state = "NoChange"
  /\ Len(rate_history) >= 2
  /\ rate_history[Len(rate_history)]["1d"] - rate_history[Len(rate_history) - 1]["1d"]
       \in {0, 1}
  /\ rate_history[Len(rate_history)]["timestamp"] = clock

\* The reading of the claims' matching rule: the tenors marked changed, the
\* largest magnitude among their absolute deltas, and the policy's verdict.
ChangedTenors(changes) == {period \in DOMAIN changes : changes[period].changed}

MaxMagnitude(changes) ==
  LET M == {Abs(changes[period].absolute) : period \in ChangedTenors(changes)}
  IN CHOOSE m \in M : \A x \in M : x <= m

Matches(subscription, changes) ==
  \/ /\ subscription.subscription_type = ANY_CHANGE
     /\ ChangedTenors(changes) # {}
  \/ /\ subscription.subscription_type = PERCENTAGE
     /\ ChangedTenors(changes) # {}
     /\ FloatGe(MaxMagnitude(changes), subscription.threshold_percentage)

\* The change set of a move of the 1d rate from 35.00 to q (thousandths).
MoveTo(q) == calculate_changes(Snapshot(35000, 0), Snapshot(q, 1))

C15_HelpTextExample ==
  (/\ call_args.fn = "should_notify_user"
   /\ call_args.subscription = UserSubscription(1, PERCENTAGE, ButtonThreshold("config_1.0")))
  => /\ call_args.changes = MoveTo(35400) => call_result = TRUE
     /\ call_args.changes = MoveTo(35200) => call_result = FALSE

\* The wall clock of Buenos Aires at a UTC reading, by counting minutes of
\* the week: the day (0 = Monday) and <<minute of the day, second,
\* microsecond>>.
LocalMinuteOfWeek(utc) ==
  (utc.weekday * 1440 + utc.hour * 60 + utc.minute + 10080 - 180) % 10080

LocalDay(utc) == LocalMinuteOfWeek(utc) \div 1440

LocalTime(utc) == <<LocalMinuteOfWeek(utc) % 1440, utc.second, utc.microsecond>>

StrictlyBefore(a, b) ==
  \/ a[1] < b[1]
  \/ a[1] = b[1] /\ a[2] < b[2]
  \/ a[1] = b[1] /\ a[2] = b[2] /\ a[3] < b[3]

C16_TransientFailureKeepsSubscription ==
  [][send_message_returns("Transient")
       => /\ UNCHANGED <<subscriptions, subs_table, unreachable>>
          /\ stats'.notification_errors = stats.notification_errors + 1
          /\ tick_state' # "Raised"]_vars

\* A second tick is sending to the only chat its fan-out lists, after the
\* one send of the run so far failed and no chat was marked unreachable.
C16_Witness ==
  /\ tick_state = "Dispatching"
  /\ stats.changes_detected = 2
  /\ stats.notification_errors = 1
  /\ stats.notifications_sent = 0
  /\ unreachable = {}
  /\ Len(tick_items) = 1

\* C17 (as claimed): every percentage subscription of the registry and of
\* the subscriptions table has a threshold p with 0 <= p <= 100.
C17_ThresholdsInRange ==
  \A row \in Rows(subscriptions) \cup Rows(subs_table) :
     row.subscription_type = PERCENTAGE
       => /\ FloatGe(row.threshold_percentage, 0)
          /\ FloatGe(100000, row.threshold_percentage)

\* C18: neither the registry nor the subscriptions table holds an entry
\* whose policy is "none"; a chat that unsubscribed has no entry.
C18_NoneIsAbsence ==
  \A row \in Rows(subscriptions) \cup Rows(subs_table) : row.subscription_type # NONE

\* A chat listed by the fan-out in progress has unsubscribed since: it is in
\* neither the registry nor the table, and was not pruned as unreachable.
C18_Witness ==
  /\ tick_state = "Dispatching"
  /\ \E i \in DOMAIN tick_items :
        /\ tick_items[i].chat_id \notin Keys(subscriptions)
        /\ tick_items[i].chat_id \notin Keys(subs_table)
        /\ tick_items[i].chat_id \notin unreachable

\* Subscriptions a configuration command may write for a chat.
Writable(chat_id) ==
  {UserSubscription(chat_id, ANY_CHANGE, 0)}
  \cup {UserSubscription(chat_id, PERCENTAGE, p) : p \in {300, 500, 2000, NaN}}

NoDuplicates(rows) == Cardinality(Keys(rows)) = Len(rows)

\* C19: the registry and the subscriptions table never hold two entries for
\* one chat, and a subscribe call whose store write succeeds leaves in each
\* exactly one entry for the chat, the one written, changes no other chat's
\* entry, and changes nothing when that entry was there already.
C19_UpsertKeyedByChat ==
  /\ [](NoDuplicates(subscriptions) /\ NoDuplicates(subs_table))
  /\ [][\A chat_id \in Chats : \A subscription \in Writable(chat_id) :
          SetAndSave(subscription, TRUE)
          => /\ AsMap(subscriptions')[chat_id] = subscription
             /\ AsMap(subs_table')[chat_id] = subscription
             /\ \A c \in Keys(subscriptions) \ {chat_id} :
                   c \in Keys(subscriptions') /\ AsMap(subscriptions')[c] = AsMap(subscriptions)[c]
             /\ \A c \in Keys(subs_table) \ {chat_id} :
                   c \in Keys(subs_table') /\ AsMap(subs_table')[c] = AsMap(subs_table)[c]
             /\ Keys(subscriptions') = Keys(subscriptions) \cup {chat_id}
             /\ Keys(subs_table') = Keys(subs_table) \cup {chat_id}
             /\ (/\ chat_id \in Keys(subscriptions) \cap Keys(subs_table)
                 /\ AsMap(subscriptions)[chat_id] = subscription
                 /\ AsMap(subs_table)[chat_id] = subscription)
                => UNCHANGED <<subscriptions, subs_table>>]_vars

\* Both chats are subscribed, one row each in the registry and in the
\* table, and the first chat's row is a custom threshold that replaced the
\* policy it had when it asked for one.
C19_Witness ==
  /\ Len(subscriptions) = 2
  /\ Len(subs_table) = 2
  /\ AsMap(subscriptions) = AsMap(subs_table)
  /\ AsMap(subs_table)[1] = UserSubscription(1, PERCENTAGE, 300)
  /\ subs_table[1].chat_id = 1
  /\ subscriptions[2].chat_id = 1

\* C21: for two snapshots, calculate_changes returns an entry for each of
\* the four tenors, and an entry's changed is false exactly when the
\* magnitude of its absolute is at most 0.001.
C21_AllTenorsAndTolerance ==
  (/\ call_args.fn = "calculate_changes"
   /\ call_args.old_rates # None
   /\ call_args.new_rates # None)
  => /\ DOMAIN call_result = {"1d", "2d", "3d", "7d"}
     /\ \A period \in DOMAIN call_result :
          (call_result[period].changed = FALSE) <=> (Abs(call_result[period].absolute) <= 1)

\* calculate_changes was called on a move of exactly 0.001 of the 1d rate
\* together with a move of one point of the 7d rate.
C21_Witness ==
  /\ call_args.fn = "calculate_changes"
  /\ call_result # None
  /\ call_result["1d"].absolute = 1
  /\ ~call_result["1d"].changed
  /\ call_result["7d"].absolute = 1000
  /\ call_result["7d"].changed

\* C22: a tenor whose earlier value is 0 gets changed = false, absolute = 0
\* and percentage = 0 whatever its later value, and the entries of the other
\* tenors are determined by their own two values.
C22_ZeroPreviousValue ==
  (/\ call_args.fn = "calculate_changes"
   /\ call_args.old_rates # None
   /\ call_args.new_rates # None)
  => \A period \in {"1d", "2d", "3d", "7d"} :
        Get(call_args.old_rates, period, 0) = 0
        => /\ call_result[period].changed = FALSE
           /\ call_result[period].absolute = 0
           /\ call_result[period].percentage = 0
           /\ \A other \in {"1d", "2d", "3d", "7d"} \ {period} :
                 Get(call_args.old_rates, other, 0) # 0
                 => /\ call_result[other].absolute =
                         Get(call_args.new_rates, other, 0)
                         - Get(call_args.old_rates, other, 0)
                    /\ call_result[other].changed
                         = (Abs(call_result[other].absolute) > 1)

\* The earlier 7d value was 0, the later one 39.50, and the 1d rate moved.
C22_Witness ==
  /\ call_args.fn = "calculate_changes"
  /\ call_result # None
  /\ "7d" \in DOMAIN call_args.old_rates
  /\ call_args.old_rates["7d"] = 0
  /\ Get(call_args.new_rates, "7d", 0) = 39500
  /\ call_result["1d"].changed

\* C23: a closing job whose fetch succeeds appends one row, the fetched
\* snapshot, and remembers it, also when the remembered snapshot already has
\* the same rates; it starts no send, counts nothing and leaves the tick and
\* the registry alone.  It takes no time of day as input, so it runs the
\* same in every state.  The insert is the store's: when the store raises
\* instead, nothing is appended or remembered.
C23_ClosingSnapshot ==
  [][\A conn \in ConnectOutcomes, answers \in Bool, quote \in Quotes1d, db_ok \in Bool :
       (/\ Fetched(conn, answers, quote) # None
        /\ fetch_closing_rates_job(conn, answers, quote, db_ok))
       => /\ IF db_ok
             THEN /\ rate_history' = Append(rate_history, Fetched(conn, answers, quote))
                  /\ last_rates' = Fetched(conn, answers, quote)
             ELSE /\ rate_history' = rate_history
                  /\ last_rates' = last_rates
          /\ sent_to' = sent_to
          /\ stats' = stats
          /\ tick_state' = tick_state
          /\ tick_idx' = tick_idx
          /\ subscriptions' = subscriptions
          /\ subs_table' = subs_table]_vars

\* One tick has run in all, it found no earlier snapshot, and the history
\* holds two rows of this run with the same rates: the second one is the
\* closing job's, which is the one remembered.  No send was started.
C23_Witness ==
  /\ stats.checks = 1
  /\ tick_state = "FirstObservation"
  /\ Len(rate_history) = 2
  /\ rate_history[1]["timestamp"] = 1
  /\ rate_history[2]["timestamp"] = 2
  /\ \A period \in Tenors : rate_history[2][period] = rate_history[1][period]
  /\ last_rates = rate_history[2]
  /\ sent_to = {}
  /\ subscriptions # <<>>

\* C24: a run of the status job leaves the registry, the remembered
\* snapshot, every counter, the tick and the three tables as they were.
C24_StatusJobReadsOnly ==
  [][\A now \in ClockSamples :
       log_status_job(now)
       => /\ subscriptions' = subscriptions
          /\ last_rates' = last_rates
          /\ stats' = stats
          /\ subs_table' = subs_table
          /\ rate_history' = rate_history
          /\ suggestions' = suggestions
          /\ tick_state' = tick_state
          /\ sent_to' = sent_to]_vars

\* The status job reported a notification sent and a change detected, and
\* the counters, the registry and the remembered rate are still the ones it
\* reported.
C24_Witness ==
  /\ status_line # None
  /\ status_line.notifications_sent >= 1
  /\ status_line.changes_detected >= 1
  /\ status_line.notifications_sent = stats.notifications_sent
  /\ status_line.changes_detected = stats.changes_detected
  /\ status_line.checks = stats.checks
  /\ status_line.subs = Len(subscriptions)
  /\ last_rates # None
  /\ status_line.rates_info = TwoDecimals(last_rates["1d"])

\* A coroutine is inside the write of a store method: past the point where
\* the method takes the lock, if it takes it, and before its commit.
InsideWrite(t) == store_task[t].op # "idle" /\ store_task[t].stage = "writing"

WaitsToWrite(t) == store_task[t].op # "idle" /\ store_task[t].stage = "called"

SerializedWriters == {"save_subscription", "delete_subscription", "save_suggestion"}

\* C26: at most one coroutine at a time is inside the write of a
\* subscription upsert, a subscription delete or a feedback insert, and
\* while one is, a caller of any of the three stays where it is.
C26_WritersExcludeEachOther ==
  /\ [](Cardinality({t \in StoreTasks :
                       InsideWrite(t) /\ store_task[t].op \in SerializedWriters}) <= 1)
  /\ [][\A t, u \in StoreTasks :
          (/\ t # u
           /\ WaitsToWrite(t) /\ store_task[t].op \in SerializedWriters
           /\ InsideWrite(u) /\ store_task[u].op \in SerializedWriters
           /\ InsideWrite(u)')
          => store_task'[t] = store_task[t]]_vars

\* A feedback insert is inside its write while a subscription upsert has
\* been called and waits.
C26_Witness ==
  \E t, u \in StoreTasks :
     /\ InsideWrite(t) /\ store_task[t].op = "save_suggestion"
     /\ WaitsToWrite(u) /\ store_task[u].op = "save_subscription"
     /\ write_lock = t

\* C27: a step that writes to a table of the store is taken while the
\* writer lock is held.
C27_EveryWriteHoldsLock ==
  [][(\/ subs_table' # subs_table
      \/ suggestions' # suggestions
      \/ rate_history' # rate_history)
     => write_lock # 0]_vars

\* a is an initial part of b
IsPrefix(a, b) == Len(a) <= Len(b) /\ \A i \in DOMAIN a : b[i] = a[i]

\* C28: every step keeps every feedback row in place with its id, chat id,
\* name, text and creation time, and a row that is read stays read.
C28_FeedbackAppendOnly ==
  [][/\ Len(suggestions') >= Len(suggestions)
     /\ \A i \in DOMAIN suggestions :
          /\ suggestions'[i].id = suggestions[i].id
          /\ suggestions'[i].chat_id = suggestions[i].chat_id
          /\ suggestions'[i].username = suggestions[i].username
          /\ suggestions'[i].message = suggestions[i].message
          /\ suggestions'[i].created_at = suggestions[i].created_at
          /\ suggestions[i].read => suggestions'[i].read]_vars

\* The second feedback row was marked read while the first one, of another
\* chat, is unread.
C28_Witness ==
  /\ Len(suggestions) = 2
  /\ ~suggestions[1].read
  /\ suggestions[2].read
  /\ suggestions[1].chat_id # suggestions[2].chat_id

\* C29: every step keeps the rows of the rate history and their order,
\* adding rows at the end only; and get_latest_rates returns None exactly on
\* an empty table and otherwise a row of the table that no other row is
\* later than.
C29_HistoryAppendOnlyLatestLast ==
  /\ [][IsPrefix(rate_history, rate_history')]_vars
  /\ [](call_args.fn = "get_latest_rates"
         => /\ (call_result = None) <=> (call_args.table = <<>>)
            /\ call_args.table # <<>>
               => /\ call_result \in Rows(call_args.table)
                  /\ \A row \in Rows(call_args.table) :
                        row["timestamp"] <= call_result["timestamp"])

\* get_latest_rates was called on two rows with different rates and
\* returned the second.
C29_Witness ==
  /\ call_args.fn = "get_latest_rates"
  /\ Len(call_args.table) = 2
  /\ call_args.table[1]["1d"] # call_args.table[2]["1d"]
  /\ call_result = call_args.table[2]

\* C30: a start of the process that cannot reach the store leaves no bot
\* serving and no timer registered; no bot object holds a registry or a
\* remembered snapshot; and from then on nothing is sent, fetched, counted
\* or written until the process is started again.
C30_UnreachableStoreIsFatal ==
  /\ [][\A exception \in StartupFailures :
          main_raises(exception) => (~serving' /\ jobs' = {})]_vars
  /\ [](~serving => /\ jobs = {}
                     /\ subscriptions = <<>>
                     /\ last_rates = None
                     /\ tick_state = "none"
                     /\ sent_to = {})
  /\ [][(~serving /\ ~serving')
        => UNCHANGED <<subs_table, rate_history, suggestions, clock, stats,
                       subscriptions, last_rates, sent_to, tick_state,
                       status_line>>]_vars

\* The process was started with the store out of reach while the store
\* holds a subscription and two snapshots of earlier runs.
C30_Witness ==
  /\ ~serving
  /\ jobs = {}
  /\ subs_table # <<>>
  /\ Len(rate_history) >= 2
  /\ subscriptions = <<>>

\* C25: the closing job starts at its scheduled time: its time never comes
\* or passes with the job held back by a tick.
C25_ClosingJobOnTime == loop \notin {"tick_close_due", "close_due"}

\* C32: should_tweet answers true exactly when a changed tenor rose by 5.0
\* points or more; it is true for the rise of 5.5 and false for the largest
\* rise of 2.0, for the drop of 6.0 and for None.
C32_TweetOnRiseOfFivePoints ==
  call_args.fn = "should_tweet"
  => /\ call_result
        <=> /\ call_args.changes # None
            /\ \E period \in {"1d", "2d", "3d", "7d"} :
                  /\ call_args.changes[period].changed
                  /\ call_args.changes[period].absolute >= 5000
     /\ call_args.changes = changes_big => call_result
     /\ call_args.changes = changes_small => ~call_result
     /\ call_args.changes = changes_down => ~call_result
     /\ call_args.changes = None => ~call_result

\* should_tweet answered true for a rise of exactly 5.0 points of the 7d
\* rate while the 1d rate had dropped by 6.0.
C32_Witness ==
  /\ call_args.fn = "should_tweet"
  /\ call_result
  /\ call_args.changes # None
  /\ call_args.changes["7d"].absolute = 5000
  /\ call_args.changes["1d"].absolute = -6000

\* C40: twitter_bot.calculate_changes returns what CaucionBot.calculate_changes
\* returns for the same two arguments.
C40_SameAsMain ==
  call_args.fn = "twitter_calculate_changes"
  => call_result = calculate_changes(call_args.old_rates, call_args.new_rates)

\* The row that a row of the earlier layout is to become: its three values
\* under three tenors in their order, and 0 under the remaining, new tenor.
MigratedFrom(legacy, row) ==
  /\ DOMAIN row = {"1d", "2d", "3d", "7d", "timestamp"}
  /\ row["timestamp"] = legacy["timestamp"]
  /\ \/ <<row["1d"], row["2d"], row["3d"], row["7d"]>>
          = <<0, legacy["legacy_1"], legacy["legacy_2"], legacy["legacy_3"]>>
     \/ <<row["1d"], row["2d"], row["3d"], row["7d"]>>
          = <<legacy["legacy_1"], 0, legacy["legacy_2"], legacy["legacy_3"]>>
     \/ <<row["1d"], row["2d"], row["3d"], row["7d"]>>
          = <<legacy["legacy_1"], legacy["legacy_2"], 0, legacy["legacy_3"]>>
     \/ <<row["1d"], row["2d"], row["3d"], row["7d"]>>
          = <<legacy["legacy_1"], legacy["legacy_2"], legacy["legacy_3"], 0>>

\* C31: init_db leaves a table that a second init_db does not change, with
\* as many rows as before, every row in the layout of four tenors: a row
\* that had it is unchanged, a row of the earlier layout has its three
\* values under three tenors and 0 under the new one.
C31_InitMigratesLegacyRows ==
  call_args.fn = "init_db"
  => /\ call_result.exists
     /\ init_db(call_result) = call_result
     /\ Len(call_result.rows) = Len(call_args.table.rows)
     /\ \A i \in DOMAIN call_result.rows :
          IF "legacy_1" \in DOMAIN call_args.table.rows[i]
          THEN MigratedFrom(call_args.table.rows[i], call_result.rows[i])
          ELSE call_result.rows[i] = call_args.table.rows[i]


\* C33 (as claimed): no step starts a send to a chat that is not in the
\* registry, which is where /pausar leaves a chat until it subscribes again,
\* a fan-out in progress included.
C33_NoSendAfterPausar ==
  [][\A c \in Chats :
       (c \notin Keys(subscriptions) /\ c \notin sent_to) => c \notin sent_to']_vars

\* C34 (as claimed): when the send a tick is suspended in fails as "bot was
\* blocked" and its chat has left the registry in the meantime, the tick goes
\* on: it starts the send to the next match or, with no match left,
\* remembers its snapshot.
C34_RemovedDuringSendTickCompletes ==
  [][(/\ tick_state = "Dispatching"
      /\ tick_items[tick_idx].chat_id \notin Keys(subscriptions)
      /\ send_message_returns("Blocked"))
       => \/ tick_state' = "Dispatching"
          \/ tick_state' = "ChangeDetected" /\ last_rates' = tick_new]_vars


\* Two rows differ in some tenor by more than the tolerance, the earlier
\* value not being zero.
RowsDiffer(earlier, later) ==
  \E t \in Tenors : earlier[t] # 0 /\ Abs(later[t] - earlier[t]) > Epsilon

\* C35 (as claimed): the step that appends a row differing from the row
\* before it, while a subscriber to any change is registered, starts the
\* fan-out that announces the appended row.
C35_EveryChangeAnnounced ==
  [][(/\ rate_history # <<>>
      /\ Len(rate_history') = Len(rate_history) + 1
      /\ RowsDiffer(rate_history[Len(rate_history)], rate_history'[Len(rate_history')])
      /\ \E i \in DOMAIN subscriptions : subscriptions[i].subscription_type = ANY_CHANGE)
       => /\ tick_state' = "Dispatching"
          /\ tick_new' = rate_history'[Len(rate_history')]
          /\ sent_to' # {}]_vars


\* C36 (as claimed): a tick that persists a non-zero value for a tenor whose
\* remembered value is 0, and that is over in that step, leaves a non-zero
\* remembered value for that tenor.
C36_ZeroBaselineDoesNotPersist ==
  [][(/\ stats'.checks = stats.checks + 1
      /\ last_rates # None
      /\ tick_state' # "Dispatching")
       => \A t \in Tenors :
             (last_rates[t] = 0 /\ rate_history'[Len(rate_history')][t] # 0)
                => last_rates'[t] # 0]_vars


\* C37: while a bot object exists, last_rates is absent only if the rate
\* history has no rows; a tick takes the first-observation branch only when
\* the history was empty before it, and a start of the process over a
\* non-empty history remembers its last row.
C37_ColdStartOnlyOnEmptyHistory ==
  /\ []((serving /\ last_rates = None) => rate_history = <<>>)
  /\ [][/\ (tick_state' = "FirstObservation" /\ stats'.checks = stats.checks + 1)
             => rate_history = <<>>
        /\ ((\E conn \in ConnectOutcomes : Restart(conn)) /\ rate_history # <<>>)
             => last_rates' = rate_history[Len(rate_history)]]_vars

\* The process was started again over a history of two rows, and its first
\* tick found a change against the last of them and is notifying.
C37_Witness ==
  /\ Len(rate_history) = 3
  /\ stats.checks = 1
  /\ stats.changes_detected = 1
  /\ tick_state = "Dispatching"
  /\ tick_new = rate_history[3]


\* C38 (as claimed): a rate job that runs while the client is built but not
\* logged in calls connect_ppi again, so that with a provider that accepts
\* the login the client is authenticated when the job is over.
C38_FailedLoginRetried ==
  [][(ppi = "unauth" /\ clock' = clock + 1) => ppi' = "auth"]_vars


\* C39 (as claimed): a text of at least 5 characters from a user whose
\* suggestion is pending, the store being writable, is appended to the
\* suggestions and clears the pending flag, whatever the other flag is.
C39_PendingSuggestionStored ==
  [][\A chat_id \in Chats, text \in SuggestionTexts :
       (/\ user_data[chat_id].waiting_suggestion
        /\ Len(Strip(text)) >= 5
        /\ handle_message(chat_id, text, TRUE))
         => /\ Len(suggestions') = Len(suggestions) + 1
            /\ suggestions'[Len(suggestions')].chat_id = chat_id
            /\ suggestions'[Len(suggestions')].message = Strip(text)
            /\ ~user_data'[chat_id].waiting_suggestion]_vars

====
